---- MODULE Spec2Model ----
(***************************************************************************)
(* LedgerFlow: the transactions/accounts tables with their two balance     *)
(* triggers, and the client handlers that write to them (QuickEntry, the   *)
(* Transactions page wizard, the plain Transactions form).                 *)
(*                                                                         *)
(* Every database statement is one atomic step (autocommit); a client      *)
(* handler is split at the awaits between two statements.                  *)
(***************************************************************************)
EXTENDS Integers, FiniteSets, Sequences, TLC

\* ------------------------------------------------------------------ bounds
MaxTx == 2                      \* rows inserted in one behaviour (ids 1..MaxTx)
MaxEdits == 1                   \* row UPDATEs that take effect in one behaviour
MaxDate == 3                    \* transaction_date ranges over 1..MaxDate
MaxReminders == 1               \* payment_reminders rows stored at one time
NSteps == 3                     \* steps of the wizard (steps.length)
MaxCompletions == 2             \* onComplete invocations in one behaviour
MaxItems == 2                   \* items in the invoice form at one time

\* id 0 is the row a ledger may already hold when the behaviour starts; ids
\* grow with the insertion order (created_at)
TxIds == 0..MaxTx
Dates == 1..MaxDate
AccountIds == {1, 2}            \* id 2 is never issued; ids are never reused
\* the (type, amount) pairs the forms are filled with; the last two are the
\* amounts the table's CHECK (amount > 0) refuses
Entries == { <<"credit", 100>>, <<"debit", 30>>,
             <<"debit", 0>>, <<"credit", -20>> }
\* the entries of the back-dated insert example, added to a ledger that
\* already holds (d1, credit 100)
ScenarioEntries == { <<"debit", 30>>, <<"credit", 20>> }

Quick == "quick"                \* the QuickEntry widget
Page == "page"                  \* the Transactions page (wizard)
Clients == {Quick, Page}
ReminderIds == 1..MaxReminders
Names == {"n1", "n2"}           \* account names
Null == -1                      \* SQL NULL in a nullable reference
Steps == 0..(NSteps - 1)        \* step indexes of the wizard
CallIds == {1, 2}               \* handleNext invocations running at one time
\* a step's validation prop: absent, () => boolean, () => Promise<boolean>
Validations == {"none", "sync", "async"}

\* ------------------------------------------------------------------ state
VARIABLES
  accounts,       \* public.accounts: id -> row
  transactions,   \* public.transactions: id -> row (id order = insertion order)
  nextId,         \* number of transaction ids issued so far
  edits,          \* number of row UPDATEs that took effect so far
  uid,            \* auth.uid() of each client session
  cache,          \* each component's `accounts` state: id -> cached row
  isOpen,         \* QuickEntry dialog open
  pc,             \* where each client's submit handler is
  pending,        \* locals of a handler suspended at an await
  reminders,      \* public.payment_reminders: id -> row
  toast,          \* the latest toast: "none", "success", "missing" (QuickEntry:
                  \* Missing Information), "failed" (QuickEntry: Failed to add
                  \* transaction), or the message of the statement's error
  steps,          \* Wizard prop steps: index -> kind of the step's validation
  mounted,        \* the Wizard is rendered (its dialog is open)
  currentStep,    \* Wizard state currentStep
  completedSteps, \* Wizard state completedSteps
  isLoading,      \* Wizard state isLoading
  formValid,      \* index -> what the step's validation returns for the form data
  calls,          \* handleNext invocations: where each is, and its closure
  completions,    \* number of onComplete invocations so far
  items,          \* InvoiceGenerator state invoiceData.items
  generating,     \* InvoiceGenerator state generating
  printing,       \* generatePDF suspended at an await: its closure's items
  invoices        \* public.invoices: the rows stored, in insertion order

wizard == <<steps, mounted, currentStep, completedSteps, isLoading, formValid,
           calls, completions>>
invoice == <<items, generating, printing, invoices>>
ledger == <<accounts, transactions, nextId, edits, uid, cache, isOpen, pc, pending,
           reminders, toast>>
vars == <<accounts, transactions, nextId, edits, uid, cache, isOpen, pc, pending,
         reminders, toast, steps, mounted, currentStep, completedSteps, isLoading,
         formValid, calls, completions, items, generating, printing, invoices>>
db == <<accounts, transactions>>

NoAccount == [exists |-> FALSE, user_id |-> "", name |-> "", opening_balance |-> 0,
              current_balance |-> 0, credit_limit |-> 0]
NoReminder == [exists |-> FALSE, account_id |-> 0, transaction_id |-> Null,
               is_sent |-> FALSE, sent_at |-> Null, user_id |-> ""]
NoTx == [exists |-> FALSE, account_id |-> 0, type |-> "credit", amount |-> 0,
         transaction_date |-> 0, running_balance |-> 0, user_id |-> ""]
NoCache == [present |-> FALSE, current_balance |-> 0]
NoPending == [account_id |-> 0, runningBalance |-> 0]
NoCall == [pc |-> "idle", step |-> 0, result |-> "none"]
NoPrinting == [pending |-> FALSE, items |-> <<>>]

\* no Wizard is rendered; steps are those of the Transactions wizard
WizardUnmounted ==
  /\ steps = [s \in Steps |-> IF s = 0 THEN "sync" ELSE "none"]
  /\ mounted = FALSE
  /\ currentStep = 0
  /\ completedSteps = {}
  /\ isLoading = FALSE
  /\ formValid = [s \in Steps |-> FALSE]
  /\ calls = [k \in CallIds |-> NoCall]
  /\ completions = 0

\* no InvoiceGenerator is rendered
InvoiceClosed ==
  /\ items = <<>>
  /\ generating = FALSE
  /\ printing = NoPrinting
  /\ invoices = <<>>

\* ------------------------------------------------------- pure SQL helpers
\* CASE WHEN type = 'credit' THEN amount WHEN type = 'debit' THEN -amount END
Signed(type, amount) == IF type = "credit" THEN amount ELSE -amount

RECURSIVE SumSigned(_, _)
SumSigned(txs, ids) ==
  IF ids = {} THEN 0
  ELSE LET i == CHOOSE x \in ids : TRUE
       IN Signed(txs[i].type, txs[i].amount) + SumSigned(txs, ids \ {i})

\* rows of table txs that belong to account a
TxOf(txs, a) == {i \in TxIds : txs[i].exists /\ txs[i].account_id = a}


\* ------------------------------------------------------------- triggers
\* calculate_running_balance leaving NEW.running_balance as the client sent it
calculate_running_balanceClientValue(accts, txs, id, new) == new

\* BEFORE INSERT OR UPDATE: sets NEW.running_balance from the opening balance
\* and the rows of the same account dated strictly before NEW (NEW excluded).
calculate_running_balance(accts, txs, id, new) ==
  LET account_opening_balance == accts[new.account_id].opening_balance
      earlier == {i \in TxOf(txs, new.account_id) :
                    txs[i].transaction_date < new.transaction_date /\ i # id}
      prev_balance == account_opening_balance + SumSigned(txs, earlier)
  IN [new EXCEPT !.running_balance = prev_balance + Signed(new.type, new.amount)]

\* update_account_balance adding NEW's amount to the stored balance instead
\* of summing the rows again
update_account_balanceIncremental(accts, txs, new) ==
  IF ~new.exists THEN accts
  ELSE [accts EXCEPT ![new.account_id].current_balance =
          accts[new.account_id].current_balance + Signed(new.type, new.amount)]

\* update_account_balance without WHERE id = NEW.account_id: every account
\* gets its opening balance plus the rows of NEW's account
update_account_balanceEveryAccount(accts, txs, new) ==
  IF ~new.exists THEN accts
  ELSE [a \in AccountIds |->
          IF ~accts[a].exists THEN accts[a]
          ELSE [accts[a] EXCEPT !.current_balance =
                  accts[a].opening_balance
                    + SumSigned(txs, TxOf(txs, new.account_id))]]

\* AFTER INSERT OR UPDATE OR DELETE: rewrites current_balance of the account
\* NEW.account_id. In a DELETE trigger NEW is NULL (passed here as NoTx), so
\* WHERE id = NEW.account_id matches no row.
update_account_balance(accts, txs, new) ==
  IF ~new.exists THEN accts
  ELSE [accts EXCEPT ![new.account_id].current_balance =
          accts[new.account_id].opening_balance
            + SumSigned(txs, TxOf(txs, new.account_id))]

\* ------------------------------------------------------------ statements
\* a statement's result: the error it raised ("" for none; a raised error
\* aborts the statement) and the tables after it
Raised(error, accts, txs) ==
  [ok |-> FALSE, error |-> error, accounts |-> accts, transactions |-> txs]
Done(accts, txs) ==
  [ok |-> TRUE, error |-> "", accounts |-> accts, transactions |-> txs]

AccountExists(accts, a) == a \in AccountIds /\ accts[a].exists

\* RowError without the CHECK on amount
RowErrorNoAmountCheck(accts, auth, row) ==
  IF auth = "" \/ row.user_id # auth
  THEN "not_owner"
  ELSE IF ~AccountExists(accts, row.account_id)
  THEN "unknown_account"
  ELSE ""

\* RowError without the constraints a missing account breaks
RowErrorNoAccountCheck(accts, auth, row) ==
  IF auth = "" \/ row.user_id # auth
  THEN "not_owner"
  ELSE IF ~(row.amount > 0)
  THEN "invalid_amount"
  ELSE ""

\* the error a new row version raises: the row-level policy; a missing
\* account (the BEFORE trigger finds no opening balance and leaves
\* running_balance NULL in a NOT NULL column, and account_id breaks its
\* foreign key); the CHECK on amount
RowError(accts, auth, row) ==
  IF auth = "" \/ row.user_id # auth             \* USING (auth.uid() = user_id)
  THEN "not_owner"
  ELSE IF ~AccountExists(accts, row.account_id)  \* REFERENCES public.accounts(id)
  THEN "unknown_account"
  ELSE IF ~(row.amount > 0)                      \* CHECK (amount > 0)
  THEN "invalid_amount"
  ELSE ""

RowAccepted(accts, auth, row) == RowError(accts, auth, row) = ""

\* INSERT INTO transactions: BEFORE trigger, constraints, AFTER trigger
InsertTransaction(accts, txs, id, auth, row) ==
  IF ~RowAccepted(accts, auth, row)
  THEN Raised(RowError(accts, auth, row), accts, txs)
  ELSE LET new == calculate_running_balance(accts, txs, id,
                                            [row EXCEPT !.exists = TRUE])
           txs2 == [txs EXCEPT ![id] = new]
       IN Done(update_account_balance(accts, txs2, new), txs2)

\* UPDATE transactions SET ... WHERE id = id: a row the policy hides is not
\* updated and nothing is raised
UpdateTransaction(accts, txs, id, auth, row) ==
  IF ~(txs[id].exists /\ auth # "" /\ txs[id].user_id = auth) THEN Done(accts, txs)
  ELSE IF ~RowAccepted(accts, auth, row)
  THEN Raised(RowError(accts, auth, row), accts, txs)
  ELSE LET new == calculate_running_balance(accts, txs, id,
                                            [row EXCEPT !.exists = TRUE])
           txs2 == [txs EXCEPT ![id] = new]
       IN Done(update_account_balance(accts, txs2, new), txs2)

\* DELETE FROM transactions WHERE id = id
DeleteTransaction(accts, txs, id, auth) ==
  IF ~(txs[id].exists /\ auth # "" /\ txs[id].user_id = auth) THEN Done(accts, txs)
  ELSE LET txs2 == [txs EXCEPT ![id] = NoTx]
       IN Done(update_account_balance(accts, txs2, NoTx), txs2)

\* UPDATE accounts SET current_balance = value WHERE id = a
UpdateAccountBalance(accts, txs, a, auth, value) ==
  IF ~(AccountExists(accts, a) /\ auth # "" /\ accts[a].user_id = auth)
  THEN Done(accts, txs)
  ELSE Done([accts EXCEPT ![a].current_balance = value], txs)

\* DELETE FROM accounts WHERE id = a; transactions.account_id is ON DELETE
\* CASCADE, and each cascaded row delete fires the AFTER DELETE trigger
DeleteAccount(accts, txs, a, auth) ==
  IF ~(AccountExists(accts, a) /\ auth # "" /\ accts[a].user_id = auth)
  THEN Done(accts, txs)
  ELSE LET txs2 == [i \in TxIds |->
                     IF txs[i].exists /\ txs[i].account_id = a THEN NoTx ELSE txs[i]]
       IN Done(update_account_balance([accts EXCEPT ![a] = NoAccount], txs2, NoTx),
               txs2)

\* AccountError without the UNIQUE(name, user_id) constraint
AccountErrorNoUnique(accts, auth, id, row) ==
  IF auth = "" \/ row.user_id # auth
  THEN "not_owner"
  ELSE ""

\* the error a new version of accounts row id raises: the row-level policy,
\* UNIQUE(name, user_id); credit_limit carries no constraint
AccountError(accts, auth, id, row) ==
  IF auth = "" \/ row.user_id # auth             \* USING (auth.uid() = user_id)
  THEN "not_owner"
  ELSE IF \E a \in AccountIds \ {id} :           \* UNIQUE(name, user_id)
            /\ accts[a].exists
            /\ accts[a].name = row.name /\ accts[a].user_id = row.user_id
  THEN "duplicate_name"
  ELSE ""

\* INSERT INTO accounts
InsertAccount(accts, txs, id, auth, row) ==
  IF AccountError(accts, auth, id, row) # ""
  THEN Raised(AccountError(accts, auth, id, row), accts, txs)
  ELSE Done([accts EXCEPT ![id] = row], txs)

\* UPDATE accounts SET ... WHERE id = id: a row the policy hides is not
\* updated and nothing is raised
UpdateAccount(accts, txs, id, auth, row) ==
  IF ~(AccountExists(accts, id) /\ auth # "" /\ accts[id].user_id = auth)
  THEN Done(accts, txs)
  ELSE IF AccountError(accts, auth, id, row) # ""
  THEN Raised(AccountError(accts, auth, id, row), accts, txs)
  ELSE Done([accts EXCEPT ![id] = row], txs)

\* the error a new payment_reminders row raises: the row-level policy and
\* the two foreign keys
ReminderError(accts, txs, auth, row) ==
  IF auth = "" \/ row.user_id # auth
  THEN "not_owner"
  ELSE IF ~AccountExists(accts, row.account_id)
  THEN "unknown_account"
  ELSE IF row.transaction_id # Null /\ ~txs[row.transaction_id].exists
  THEN "unknown_transaction"
  ELSE ""

\* payment_reminders.account_id and .transaction_id are ON DELETE CASCADE:
\* the reminders left once the rows they refer to are gone from accts, txs
CascadeReminders(rems, accts, txs) ==
  [r \in ReminderIds |->
     IF rems[r].exists
        /\ ( ~accts[rems[r].account_id].exists
             \/ ( rems[r].transaction_id # Null
                  /\ ~txs[rems[r].transaction_id].exists ) )
     THEN NoReminder ELSE rems[r]]

\* ---------------------------------------------------------- client side
\* the day on which the modelled session runs: QuickEntry dates its rows
\* new Date(), the wizard's date picker can pick any date around it
Today == MaxDate - 1
\* the dates a session's forms are filled with: back-dated by a day, or today
FormDates == {Today - 1, Today}

\* fetchAccounts: select id, name, current_balance where user_id = user.id
\* (returns without touching the state when there is no user)
fetchAccounts(accts, c, auth, old) ==
  IF auth = "" THEN old
  ELSE [old EXCEPT ![c] =
          [a \in AccountIds |->
             IF accts[a].exists /\ accts[a].user_id = auth
             THEN [present |-> TRUE, current_balance |-> accts[a].current_balance]
             ELSE NoCache]]

\* the orders in which a query can return the rows S
Orderings(S) ==
  {s \in [1..Cardinality(S) -> S] :
     \A p, q \in 1..Cardinality(S) : p # q => s[p] # s[q]}

\* Transactions.fetchTransactions: the results the query can give user auth,
\* .eq('user_id', user.id).order('transaction_date', { ascending: false });
\* the order of rows of one transaction_date is the server's choice
fetchTransactions(txs, auth) ==
  LET S == {i \in TxIds : txs[i].exists /\ txs[i].user_id = auth}
  IN {s \in Orderings(S) :
        \A p, q \in 1..Cardinality(S) :
           p < q => txs[s[p]].transaction_date >= txs[s[q]].transaction_date}

\* Transactions.filteredTransactions with selectedAccount = a
filteredTransactions(list, txs, a) ==
  SelectSeq(list, LAMBDA i : txs[i].account_id = a)

\* Transactions.calculateRunningBalance: 0 when the account is not in the list
calculateRunningBalance(cached, accountId, amount, type) ==
  IF ~(accountId \in AccountIds /\ cached[accountId].present) THEN 0
  ELSE IF type = "credit" THEN cached[accountId].current_balance + amount
       ELSE cached[accountId].current_balance - amount

\* the row a client sends; running_balance is the client's own figure
TxRow(account_id, type, amount, date, runningBalance, user) ==
  [exists |-> TRUE, account_id |-> account_id, type |-> type, amount |-> amount,
   transaction_date |-> date, running_balance |-> runningBalance, user_id |-> user]

\* a statement that would store a new row needs a free id
HasFreeId(accts, auth, row) == RowAccepted(accts, auth, row) => nextId < MaxTx

\* editingTransaction = null
NotEditing == MaxTx + 1

\* an UPDATE that reaches a row and is accepted counts against MaxEdits
EditTakesEffect(accts, txs, id, auth, row) ==
  /\ txs[id].exists /\ auth # "" /\ txs[id].user_id = auth
  /\ RowAccepted(accts, auth, row)

Idle(c) == pc[c] = "idle"

\* QuickEntry: the dialog opens and its effect runs fetchAccounts
QuickOpen ==
  /\ Idle(Quick) /\ ~isOpen
  /\ isOpen' = TRUE
  /\ cache' = fetchAccounts(accounts, Quick, uid[Quick], cache)
  /\ UNCHANGED <<wizard, invoice, reminders, accounts, transactions, nextId, edits, uid, pc, pending, toast>>

\* QuickEntry: the user dismisses the dialog
QuickClose ==
  /\ Idle(Quick) /\ isOpen
  /\ isOpen' = FALSE
  /\ cache' = [cache EXCEPT ![Quick] = [a \in AccountIds |-> NoCache]]
  /\ UNCHANGED <<wizard, invoice, reminders, accounts, transactions, nextId, edits, uid, pc, pending, toast>>

\* QuickEntry.handleSubmit up to the await of the insert's result.
\* account_id = 0 is the empty selection, hasAmount = FALSE the empty amount;
\* the select offers the fetched accounts.
QuickSubmit(account_id, type, amount, hasAmount) ==
  /\ Idle(Quick) /\ isOpen
  /\ account_id # 0 => cache[Quick][account_id].present
  /\ IF account_id = 0 \/ ~hasAmount
     THEN /\ toast' = "missing"                           \* "Missing Information"
          /\ UNCHANGED <<wizard, invoice, reminders, accounts, transactions, nextId, edits, uid, cache, isOpen,
                         pc, pending>>
     ELSE IF uid[Quick] = ""                              \* "User not authenticated"
             \/ ~cache[Quick][account_id].present         \* "Account not found"
     THEN /\ toast' = "failed"                            \* caught: generic toast
          /\ UNCHANGED <<wizard, invoice, reminders, accounts, transactions, nextId, edits, uid, cache, isOpen, pc, pending>>
     ELSE LET runningBalance ==
                IF type = "credit"
                THEN cache[Quick][account_id].current_balance + amount
                ELSE cache[Quick][account_id].current_balance - amount
              row == TxRow(account_id, type, amount, Today, runningBalance, uid[Quick])
              res == InsertTransaction(accounts, transactions, nextId + 1,
                                       uid[Quick], row)
          IN /\ HasFreeId(accounts, uid[Quick], row)
             /\ IF ~res.ok
                THEN /\ toast' = "failed"
                     /\ UNCHANGED <<wizard, invoice, reminders, accounts, transactions, nextId, edits, uid, cache,
                                    isOpen, pc, pending>>
                ELSE /\ accounts' = res.accounts
                     /\ transactions' = res.transactions
                     /\ nextId' = nextId + 1
                     /\ pc' = [pc EXCEPT ![Quick] = "update"]
                     /\ pending' = [pending EXCEPT ![Quick] =
                                      [account_id |-> account_id,
                                       runningBalance |-> runningBalance]]
                     /\ UNCHANGED <<wizard, invoice, reminders, edits, uid, cache, isOpen, toast>>

\* QuickEntry.handleSubmit from the insert's result on: the account update,
\* the success toast, the form reset and the dialog close
QuickUpdateBalance ==
  /\ pc[Quick] = "update"
  /\ LET res == UpdateAccountBalance(accounts, transactions,
                    pending[Quick].account_id, uid[Quick],
                    pending[Quick].runningBalance)
     IN /\ accounts' = res.accounts
        /\ transactions' = res.transactions
  /\ toast' = "success"
  /\ isOpen' = FALSE
  /\ cache' = [cache EXCEPT ![Quick] = [a \in AccountIds |-> NoCache]]
  /\ pc' = [pc EXCEPT ![Quick] = "idle"]
  /\ pending' = [pending EXCEPT ![Quick] = NoPending]
  /\ UNCHANGED <<wizard, invoice, reminders, nextId, edits, uid>>

\* QuickEntry.handleSubmit from the insert's result on, when the account
\* update returns an error (the request fails): thrown, caught, generic toast
QuickUpdateBalanceFails ==
  /\ pc[Quick] = "update"
  /\ toast' = "failed"
  /\ pc' = [pc EXCEPT ![Quick] = "idle"]
  /\ pending' = [pending EXCEPT ![Quick] = NoPending]
  /\ UNCHANGED <<wizard, invoice, reminders, accounts, transactions, nextId, edits, uid, cache, isOpen>>

\* Transactions page: mount effect, fetchAccounts
PageMount ==
  /\ Idle(Page)
  /\ cache' = fetchAccounts(accounts, Page, uid[Page], cache)
  /\ UNCHANGED <<wizard, invoice, reminders, accounts, transactions, nextId, edits, uid, isOpen, pc, pending, toast>>

\* Transactions.handleWizardSubmit up to the await of the account update.
\* editing = NotEditing: insert; else the id of editingTransaction. The
\* select offers the fetched accounts.
PageSubmit(account_id, type, amount, date, editing) ==
  /\ Idle(Page)
  /\ cache[Page][account_id].present
  /\ editing \in 0..nextId \/ editing = NotEditing
  /\ IF uid[Page] = "" THEN UNCHANGED vars                \* if (!user) return
     ELSE
     LET runningBalance == calculateRunningBalance(cache[Page], account_id, amount, type)
         row == TxRow(account_id, type, amount, date, runningBalance, uid[Page])
     IN IF editing # NotEditing
        THEN LET res == UpdateTransaction(accounts, transactions, editing,
                                          uid[Page], row)
                 counted == EditTakesEffect(accounts, transactions, editing,
                                            uid[Page], row)
             IN /\ counted => edits < MaxEdits
                /\ IF ~res.ok
                   THEN /\ toast' = res.error
                        /\ UNCHANGED <<wizard, invoice, reminders, accounts, transactions, nextId, edits, uid,
                                       cache, isOpen, pc, pending>>
                   ELSE /\ accounts' = res.accounts
                        /\ transactions' = res.transactions
                        /\ edits' = IF counted THEN edits + 1 ELSE edits
                        /\ toast' = "success"
                        /\ cache' = fetchAccounts(res.accounts, Page, uid[Page], cache)
                        /\ UNCHANGED <<wizard, invoice, reminders, nextId, uid, isOpen, pc, pending>>
        ELSE LET res == InsertTransaction(accounts, transactions, nextId + 1,
                                          uid[Page], row)
             IN /\ HasFreeId(accounts, uid[Page], row)
                /\ IF ~res.ok
                   THEN /\ toast' = res.error
                        /\ UNCHANGED <<wizard, invoice, reminders, accounts, transactions, nextId, edits, uid, cache,
                                       isOpen, pc, pending>>
                   ELSE /\ accounts' = res.accounts
                        /\ transactions' = res.transactions
                        /\ nextId' = nextId + 1
                        /\ pc' = [pc EXCEPT ![Page] = "update"]
                        /\ pending' = [pending EXCEPT ![Page] =
                                         [account_id |-> account_id,
                                          runningBalance |-> runningBalance]]
                        /\ UNCHANGED <<wizard, invoice, reminders, edits, uid, cache, isOpen, toast>>

\* Transactions.handleWizardSubmit from the insert's result on: the account
\* update, the success toast, fetchTransactions and fetchAccounts
PageUpdateBalance ==
  /\ pc[Page] = "update"
  /\ LET res == UpdateAccountBalance(accounts, transactions,
                    pending[Page].account_id, uid[Page],
                    pending[Page].runningBalance)
     IN /\ accounts' = res.accounts
        /\ transactions' = res.transactions
        /\ cache' = fetchAccounts(res.accounts, Page, uid[Page], cache)
  /\ toast' = "success"
  /\ pc' = [pc EXCEPT ![Page] = "idle"]
  /\ pending' = [pending EXCEPT ![Page] = NoPending]
  /\ UNCHANGED <<wizard, invoice, reminders, nextId, edits, uid, isOpen>>

\* Transactions.handleWizardSubmit from the insert's result on, when the
\* account update returns an error (the request fails): thrown, caught, the
\* error's message shown
PageUpdateBalanceFails ==
  /\ pc[Page] = "update"
  /\ toast' = "storage_failure"
  /\ pc' = [pc EXCEPT ![Page] = "idle"]
  /\ pending' = [pending EXCEPT ![Page] = NoPending]
  /\ UNCHANGED <<wizard, invoice, reminders, accounts, transactions, nextId, edits, uid, cache, isOpen>>

\* Transactions.handleDelete (confirmed): delete, toast, fetchTransactions
PageDelete(id) ==
  /\ Idle(Page)
  /\ id \in 0..nextId
  /\ LET res == DeleteTransaction(accounts, transactions, id, uid[Page])
     IN /\ accounts' = res.accounts
        /\ transactions' = res.transactions
        /\ reminders' = CascadeReminders(reminders, res.accounts, res.transactions)
  /\ toast' = "success"
  /\ UNCHANGED <<wizard, invoice, nextId, edits, uid, cache, isOpen, pc, pending>>

\* Transactions.handleDelete when the delete returns an error (the request
\* fails): thrown, caught, the error's message shown
PageDeleteFails(id) ==
  /\ Idle(Page)
  /\ id \in 0..nextId
  /\ toast' = "storage_failure"
  /\ UNCHANGED <<wizard, invoice, reminders, accounts, transactions, nextId, edits, uid, cache, isOpen,
                 pc, pending>>

\* Navigation.handleSignOut in another tab of the browser: the stored session
\* is removed for every component; this tab's components stay mounted
SignOut ==
  /\ \E c \in Clients : uid[c] # ""
  /\ uid' = [c \in Clients |-> ""]
  /\ toast' = "success"                                  \* "Signed out successfully"
  /\ UNCHANGED <<wizard, invoice, reminders, accounts, transactions, nextId, edits, cache, isOpen, pc,
                 pending>>

\* the plain Transactions form (no balance figures sent): handleSubmit. Its
\* insert and update are the statements a direct table write issues, so the
\* account id is any id.
PlainSubmit(c, account_id, type, amount, date, editing) ==
  /\ Idle(c)
  /\ editing \in 0..nextId \/ editing = NotEditing
  /\ IF uid[c] = "" THEN UNCHANGED vars                   \* if (!user) return
     ELSE
     LET row == TxRow(account_id, type, amount, date, 0, uid[c])
         res == IF editing # NotEditing
                THEN UpdateTransaction(accounts, transactions, editing, uid[c], row)
                ELSE InsertTransaction(accounts, transactions, nextId + 1, uid[c], row)
         counted == editing # NotEditing
                    /\ EditTakesEffect(accounts, transactions, editing, uid[c], row)
     IN /\ editing = NotEditing => HasFreeId(accounts, uid[c], row)
        /\ counted => edits < MaxEdits
        /\ accounts' = res.accounts
        /\ transactions' = res.transactions
        /\ nextId' = IF editing = NotEditing /\ res.ok THEN nextId + 1 ELSE nextId
        /\ edits' = IF counted THEN edits + 1 ELSE edits
        /\ toast' = IF res.ok THEN "success" ELSE res.error
        /\ UNCHANGED <<wizard, invoice, reminders, uid, cache, isOpen, pc, pending>>

\* Accounts.handleDelete (confirmed)
AccountsDelete(c, a) ==
  /\ Idle(c)
  /\ LET res == DeleteAccount(accounts, transactions, a, uid[c])
     IN /\ accounts' = res.accounts
        /\ transactions' = res.transactions
        /\ reminders' = CascadeReminders(reminders, res.accounts, res.transactions)
  /\ toast' = "success"
  /\ UNCHANGED <<wizard, invoice, nextId, edits, uid, cache, isOpen, pc, pending>>

\* the accounts row Accounts.handleWizardSubmit sends for user owner
NewAccount(owner, name, opening, limit) ==
  [exists |-> TRUE, user_id |-> owner, name |-> name, opening_balance |-> opening,
   current_balance |-> opening, credit_limit |-> limit]

\* editingAccount = null, editingReminder = null
NoEditing == 0

\* ids a new accounts row can get: gen_random_uuid() gives an id that no row
\* and no component state holds
FreeAccountIds(accts) ==
  {a \in AccountIds :
     /\ ~accts[a].exists
     /\ \A c \in Clients : ~cache[c][a].present /\ pending[c].account_id # a
     /\ \A i \in TxIds : ~(transactions[i].exists /\ transactions[i].account_id = a)}

\* Accounts.handleWizardSubmit: create (editing = NoEditing) or edit an
\* account; the row sent carries current_balance = opening_balance either way
AccountsSubmit(c, editing, name, opening, limit) ==
  /\ Idle(c)
  /\ IF uid[c] = "" THEN UNCHANGED vars                   \* if (!user) return
     ELSE
     LET accountData == NewAccount(uid[c], name, opening, limit)
     IN IF editing # NoEditing
        THEN LET res == UpdateAccount(accounts, transactions, editing, uid[c],
                                      accountData)
             IN /\ accounts' = res.accounts
                /\ transactions' = res.transactions
                /\ toast' = IF res.ok THEN "success" ELSE res.error
                /\ UNCHANGED <<wizard, invoice, reminders, nextId, edits, uid, cache, isOpen, pc, pending>>
        ELSE /\ FreeAccountIds(accounts) # {}
             /\ LET id == CHOOSE a \in FreeAccountIds(accounts) :
                            \A b \in FreeAccountIds(accounts) : a <= b
                    res == InsertAccount(accounts, transactions, id, uid[c],
                                         accountData)
                IN /\ accounts' = res.accounts
                   /\ transactions' = res.transactions
                   /\ toast' = IF res.ok THEN "success" ELSE res.error
                   /\ UNCHANGED <<wizard, invoice, reminders, nextId, edits, uid, cache, isOpen, pc,
                                  pending>>

\* the columns of public.payment_reminders
ReminderColumns ==
  {"id", "account_id", "transaction_id", "reminder_date", "message", "is_sent",
   "sent_at", "user_id", "created_at"}

\* the keys of reminderData in Reminders.handleWizardSubmit: formData (its
\* reminder_type is required by the first step's validation) and user_id
ReminderFormColumns ==
  {"account_id", "transaction_id", "reminder_date", "message", "reminder_type",
   "user_id"}

\* An insert (editing = NoEditing) or update ... eq('id', editing) on
\* payment_reminders whose row names the columns cols. A column the table
\* does not have makes the API refuse the statement; an insert leaves
\* is_sent and sent_at to their defaults, an update leaves every column it
\* does not name as it is. transaction_id = Null: no transaction.
ReminderWrite(c, editing, cols, account_id, transaction_id) ==
  /\ Idle(c)
  /\ IF uid[c] = "" THEN UNCHANGED vars                   \* if (!user) return
     ELSE
     LET reminderData == [exists |-> TRUE, account_id |-> account_id,
                          transaction_id |-> transaction_id,
                          is_sent |-> FALSE, sent_at |-> Null, user_id |-> uid[c]]
         error == IF ~(cols \subseteq ReminderColumns) THEN "unknown_column"
                  ELSE ReminderError(accounts, transactions, uid[c], reminderData)
         free == {r \in ReminderIds : ~reminders[r].exists}
     IN IF editing # NoEditing
        THEN LET visible == reminders[editing].exists
                            /\ reminders[editing].user_id = uid[c]
                 failed == error = "unknown_column" \/ (visible /\ error # "")
             IN /\ reminders' =
                     IF visible /\ error = ""
                     THEN [reminders EXCEPT ![editing] =
                             [reminderData EXCEPT
                                !.is_sent = reminders[editing].is_sent,
                                !.sent_at = reminders[editing].sent_at]]
                     ELSE reminders
                /\ toast' = IF failed THEN error ELSE "success"
                /\ UNCHANGED <<wizard, invoice, accounts, transactions, nextId, edits, uid, cache,
                               isOpen, pc, pending>>
        ELSE /\ error = "" => free # {}
             /\ reminders' = IF error = ""
                             THEN [reminders EXCEPT
                                     ![CHOOSE r \in free : TRUE] = reminderData]
                             ELSE reminders
             /\ toast' = IF error = "" THEN "success" ELSE error
             /\ UNCHANGED <<wizard, invoice, accounts, transactions, nextId, edits, uid, cache, isOpen,
                            pc, pending>>

\* Reminders.handleWizardSubmit: create (editing = NoEditing) or edit a
\* reminder with the row the form builds
ReminderSubmit(c, editing, account_id, transaction_id) ==
  ReminderWrite(c, editing, ReminderFormColumns, account_id, transaction_id)

\* the same statements from a client of the table that leaves out the key
\* the table does not have
ReminderStore(c, editing, account_id, transaction_id) ==
  ReminderWrite(c, editing, ReminderFormColumns \cap ReminderColumns,
                account_id, transaction_id)

\* the statement of sendReminder with only the flag in its row
ReminderSendFlagOnly(c, r) ==
  /\ Idle(c)
  /\ reminders' = IF reminders[r].exists /\ reminders[r].user_id = uid[c]
                  THEN [reminders EXCEPT ![r].is_sent = TRUE]
                  ELSE reminders
  /\ toast' = "type_error"
  /\ UNCHANGED <<wizard, invoice, accounts, transactions, nextId, edits, uid, cache, isOpen,
                 pc, pending>>

\* Reminders.sendReminder for the listed reminder r: one update of the rows
\* the policy shows; the rows of the table carry no reminder_type, so the
\* success toast's reminder.reminder_type.toUpperCase() throws after the
\* update and the catch shows the error
ReminderSend(c, r) ==
  /\ Idle(c)
  /\ reminders' = IF reminders[r].exists /\ reminders[r].user_id = uid[c]
                  THEN [reminders EXCEPT ![r].is_sent = TRUE, ![r].sent_at = Today]
                  ELSE reminders
  /\ toast' = "type_error"
  /\ UNCHANGED <<wizard, invoice, accounts, transactions, nextId, edits, uid, cache, isOpen,
                 pc, pending>>

\* Reminders.handleDelete, once confirmed
ReminderDelete(c, r) ==
  /\ Idle(c)
  /\ reminders' = IF reminders[r].exists /\ reminders[r].user_id = uid[c]
                  THEN [reminders EXCEPT ![r] = NoReminder]
                  ELSE reminders
  /\ toast' = "success"
  /\ UNCHANGED <<wizard, invoice, accounts, transactions, nextId, edits, uid, cache, isOpen,
                 pc, pending>>

\* ----------------------------------------------------------- the Wizard
LastStep == NSteps - 1                   \* steps.length - 1

\* handleNext from setCompletedSteps on, in the invocation k whose closure
\* holds currentStep = step; isLoading is set by the caller. A state update
\* reaches the Wizard only while it is rendered; onComplete is called anyway.
Complete(k, step) ==
  /\ completedSteps' = IF mounted THEN completedSteps \cup {step} ELSE completedSteps
  /\ IF step = LastStep                  \* currentStep === steps.length - 1
     THEN /\ completions < MaxCompletions
          /\ completions' = completions + 1             \* await onComplete()
          /\ calls' = [calls EXCEPT ![k] =
                         [pc |-> "completing", step |-> step, result |-> "none"]]
          /\ UNCHANGED currentStep
     ELSE /\ currentStep' = IF mounted THEN step + 1 ELSE currentStep
          /\ calls' = [calls EXCEPT ![k] = NoCall]
          /\ UNCHANGED completions

\* handleNext without the `return` after a failed validation
handleNextFallsThrough(k, throws) ==
  /\ mounted /\ ~isLoading
  /\ calls[k].pc = "idle" /\ \A j \in CallIds : j < k => calls[j].pc # "idle"
  /\ steps[currentStep] # "async"
  /\ Complete(k, currentStep)
  /\ isLoading' = FALSE
  /\ UNCHANGED <<ledger, invoice, steps, mounted, formValid>>

\* Wizard.handleNext, started by the Next/Complete button (disabled while
\* isLoading), up to its first await that yields: a step without validation
\* or with a validation that returns a boolean runs through to onComplete or
\* to the end; a validation that returns a promise suspends the invocation.
\* throws: the validation throws (or its promise rejects).
handleNext(k, throws) ==
  /\ mounted /\ ~isLoading
  /\ calls[k].pc = "idle" /\ \A j \in CallIds : j < k => calls[j].pc # "idle"
  /\ LET step == currentStep
     IN CASE steps[step] = "none" ->
               /\ Complete(k, step)
               /\ isLoading' = IF step = LastStep THEN isLoading ELSE FALSE
          [] steps[step] = "sync" ->
               IF throws \/ ~formValid[step]
               THEN /\ isLoading' = FALSE
                    /\ UNCHANGED <<currentStep, completedSteps, calls, completions>>
               ELSE /\ Complete(k, step)
                    /\ isLoading' = (step = LastStep)
          [] steps[step] = "async" ->
               /\ isLoading' = TRUE
               /\ calls' = [calls EXCEPT ![k] =
                              [pc |-> "validating", step |-> step,
                               result |-> IF throws THEN "throws"
                                          ELSE IF formValid[step] THEN "true"
                                          ELSE "false"]]
               /\ UNCHANGED <<currentStep, completedSteps, completions>>
  /\ UNCHANGED <<ledger, invoice, steps, mounted, formValid>>

\* Wizard.handleNext from the result of `await step.validation()` on
ValidationReturns(k) ==
  /\ calls[k].pc = "validating"
  /\ IF calls[k].result # "true"
     THEN /\ isLoading' = IF mounted THEN FALSE ELSE isLoading
          /\ calls' = [calls EXCEPT ![k] = NoCall]
          /\ UNCHANGED <<currentStep, completedSteps, completions>>
     ELSE /\ Complete(k, calls[k].step)
          /\ isLoading' = IF calls[k].step = LastStep \/ ~mounted
                          THEN isLoading ELSE FALSE
  /\ UNCHANGED <<ledger, invoice, steps, mounted, formValid>>

\* Wizard.handleNext from the result of `await onComplete()` on (an error
\* is caught and logged). closes: onComplete has closed the dialog, as the
\* pages' handleWizardSubmit does after a successful save.
OnCompleteReturns(k, closes) ==
  /\ calls[k].pc = "completing"
  /\ calls' = [calls EXCEPT ![k] = NoCall]
  /\ isLoading' = IF mounted /\ ~closes THEN FALSE ELSE isLoading
  /\ mounted' = (mounted /\ ~closes)
  /\ UNCHANGED <<ledger, invoice, steps, currentStep, completedSteps, formValid,
                 completions>>

\* Wizard.handlePrevious
handlePrevious ==
  /\ mounted
  /\ currentStep' = IF currentStep > 0 THEN currentStep - 1 ELSE currentStep
  /\ UNCHANGED <<ledger, invoice, steps, mounted, completedSteps, isLoading,
                 formValid, calls, completions>>

\* handleStepClick without its condition
handleStepClickAnywhere(stepIndex) ==
  /\ mounted
  /\ currentStep' = stepIndex
  /\ UNCHANGED <<ledger, invoice, steps, mounted, completedSteps, isLoading,
                 formValid, calls, completions>>

\* Wizard.handleStepClick
handleStepClick(stepIndex) ==
  /\ mounted
  /\ currentStep' = IF stepIndex < currentStep \/ stepIndex \in completedSteps
                    THEN stepIndex ELSE currentStep
  /\ UNCHANGED <<ledger, invoice, steps, mounted, completedSteps, isLoading,
                 formValid, calls, completions>>

\* the user changes a field of the step shown (setFormData in the step's
\* content); v: what the step's validation makes of the form data now
EditStep(v) ==
  /\ mounted /\ steps[currentStep] # "none"
  /\ formValid' = [formValid EXCEPT ![currentStep] = v]
  /\ UNCHANGED <<ledger, invoice, steps, mounted, currentStep, completedSteps,
                 isLoading, calls, completions>>

\* onCancel: the dialog closes and the Wizard is no longer rendered
WizardCancel ==
  /\ mounted
  /\ mounted' = FALSE
  /\ UNCHANGED <<ledger, invoice, steps, currentStep, completedSteps, isLoading,
                 formValid, calls, completions>>

\* ------------------------------------------------- the InvoiceGenerator
\* Numbers are fixed-point: a quantity counts tenths, a rate counts cents,
\* an item amount and a total count thousandths (tenths x cents), so that
\* quantity * rate is exact; a total_amount column counts cents.
Quantities == {5, 10}                   \* 0.5 and 1, typed into Quantity
Rates == {0, 1}                         \* 0.00 and 0.01, typed into Rate
Descriptions == {"", "d"}

\* the item addItem appends, and the one the component starts with when it
\* is given no transactions
EmptyItem == [description |-> "", quantity |-> 10, rate |-> 0, amount |-> 0]

\* the item a transaction of the given amount (in cents) gives
TransactionItem(amount) ==
  [description |-> "d", quantity |-> 10, rate |-> amount, amount |-> amount * 10]

\* calculateTotal over a list of items
RECURSIVE calculateTotal(_)
calculateTotal(list) ==
  IF list = <<>> THEN 0
  ELSE list[1].amount + calculateTotal(Tail(list))

\* a value in thousandths stored in a DECIMAL(15,2) column: rounded to the
\* cent, halves away from zero
Numeric15_2(x) ==
  IF x >= 0 THEN (x + 5) \div 10 ELSE -((5 - x) \div 10)

\* InvoiceGenerator.addItem
addItem ==
  /\ items # <<>> /\ Len(items) < MaxItems
  /\ items' = Append(items, EmptyItem)
  /\ UNCHANGED <<ledger, wizard, generating, printing, invoices>>

\* InvoiceGenerator.updateItem from one of the inputs of item index
updateItem(index, field, value) ==
  /\ index \in 1..Len(items)
  /\ LET newItem == CASE field = "description" ->
                          [items[index] EXCEPT !.description = value]
                     [] field = "quantity" ->
                          [items[index] EXCEPT !.quantity = value,
                                               !.amount = value * items[index].rate]
                     [] field = "rate" ->
                          [items[index] EXCEPT !.rate = value,
                                               !.amount = items[index].quantity * value]
     IN items' = [items EXCEPT ![index] = newItem]
  /\ UNCHANGED <<ledger, wizard, generating, printing, invoices>>

\* InvoiceGenerator.removeItem; Remove is shown while there is more than
\* one item
removeItem(index) ==
  /\ Len(items) > 1 /\ index \in 1..Len(items)
  /\ items' = SubSeq(items, 1, index - 1) \o SubSeq(items, index + 1, Len(items))
  /\ UNCHANGED <<ledger, wizard, generating, printing, invoices>>

\* InvoiceGenerator.generatePDF up to `await supabase.auth.getUser()`; the
\* button is disabled while generating
generatePDF ==
  /\ items # <<>> /\ ~generating
  /\ generating' = TRUE
  /\ printing' = [pending |-> TRUE, items |-> items]
  /\ UNCHANGED <<ledger, wizard, items, invoices>>

\* InvoiceGenerator.generatePDF from the insert on: the row holds the total
\* and the items of the render generatePDF was started in. invoice_number is
\* UNIQUE and stays the one of the component, so a second insert fails; the
\* error is logged and nothing else.
InvoiceSaved ==
  /\ printing.pending
  /\ invoices' = IF uid[Page] # "" /\ invoices = <<>>
                 THEN Append(invoices,
                             [total_amount |-> Numeric15_2(calculateTotal(printing.items)),
                              items |-> printing.items])
                 ELSE invoices
  /\ generating' = FALSE
  /\ printing' = NoPrinting
  /\ UNCHANGED <<ledger, wizard, items>>

\* ------------------------------------------------------- specification
\* One user with one account (id 2 was never issued), both components
\* freshly loaded. opening: the account's opening balance; seed: the row the
\* ledger already holds (NoTx for none), stored by an earlier insert into
\* the then empty ledger.
StartLedger(opening, seed) ==
  /\ accounts = [a \in AccountIds |->
                   IF a = 1
                   THEN [exists |-> TRUE, user_id |-> "u1", name |-> "n1",
                         credit_limit |-> 0,
                         opening_balance |-> opening,
                         current_balance |->
                           opening + (IF seed.exists
                                      THEN Signed(seed.type, seed.amount) ELSE 0)]
                   ELSE NoAccount]
  /\ transactions = [i \in TxIds |-> IF i = 0 THEN seed ELSE NoTx]
  /\ nextId = 0
  /\ edits = 0
  /\ uid = [c \in Clients |-> "u1"]
  /\ cache = [c \in Clients |-> [a \in AccountIds |-> NoCache]]
  /\ isOpen = FALSE
  /\ pc = [c \in Clients |-> "idle"]
  /\ pending = [c \in Clients |-> NoPending]
  /\ reminders = [r \in ReminderIds |-> NoReminder]
  /\ toast = "none"

Start(opening, seed) ==
  StartLedger(opening, seed) /\ WizardUnmounted /\ InvoiceClosed

Init == Start(50, NoTx)

Next ==
  \/ QuickOpen
  \/ QuickClose
  \/ \E a \in AccountIds \cup {0}, e \in Entries, h \in BOOLEAN :
       QuickSubmit(a, e[1], e[2], h)
  \/ QuickUpdateBalance
  \/ PageMount
  \/ \E a \in AccountIds, e \in Entries, d \in FormDates, i \in TxIds \cup {NotEditing} :
       PageSubmit(a, e[1], e[2], d, i)
  \/ PageUpdateBalance
  \/ \E i \in TxIds : PageDelete(i)
  \/ \E a \in AccountIds, e \in Entries, d \in FormDates, i \in TxIds \cup {NotEditing} :
       PlainSubmit(Page, a, e[1], e[2], d, i)
  \/ \E c \in Clients, a \in AccountIds : AccountsDelete(c, a)

Spec == Init /\ [][Next]_vars

\* The ledger of the back-dated insert example: opening balance 0 and the row
\* (d1, credit 100) with running balance 100 already stored; rows are then
\* written and deleted through the table alone.
InitSeeded == Start(0, TxRow(1, "credit", 100, 1, 100, "u1"))

NextSeeded ==
  \/ \E e \in ScenarioEntries, d \in Dates, i \in TxIds \cup {NotEditing} :
       PlainSubmit(Page, 1, e[1], e[2], d, i)
  \/ \E i \in TxIds : PageDelete(i)

SpecSeeded == InitSeeded /\ [][NextSeeded]_vars

\* Two sessions that only add rows, each through its cached component.
NextClients ==
  \/ QuickOpen
  \/ QuickClose
  \/ \E a \in AccountIds \cup {0}, e \in Entries, h \in BOOLEAN :
       QuickSubmit(a, e[1], e[2], h)
  \/ QuickUpdateBalance
  \/ PageMount
  \/ \E a \in AccountIds, e \in Entries, d \in FormDates :
       PageSubmit(a, e[1], e[2], d, NotEditing)
  \/ PageUpdateBalance

SpecClients == Init /\ [][NextClients]_vars

\* Every form that writes a row, filled in today, next to a session that
\* deletes the account.
NextForms ==
  \/ QuickOpen
  \/ \E a \in AccountIds \cup {0}, e \in Entries, h \in BOOLEAN :
       QuickSubmit(a, e[1], e[2], h)
  \/ QuickUpdateBalance
  \/ PageMount
  \/ \E a \in AccountIds, e \in Entries, i \in TxIds \cup {NotEditing} :
       PageSubmit(a, e[1], e[2], Today, i)
  \/ PageUpdateBalance
  \/ \E a \in AccountIds, e \in Entries, i \in TxIds \cup {NotEditing} :
       PlainSubmit(Page, a, e[1], e[2], Today, i)
  \/ \E a \in AccountIds : AccountsDelete(Quick, a)

SpecForms == Init /\ [][NextForms]_vars

\* The two cached components adding rows, with account updates that can fail.
NextFailure ==
  \/ NextClients
  \/ QuickUpdateBalanceFails
  \/ PageUpdateBalanceFails

SpecFailure == Init /\ [][NextFailure]_vars

\* the credit limits the account form is filled with
Limits == {0, -5}

\* The Accounts and Reminders pages next to the plain Transactions form, which
\* adds rows; every account is given the opening balance 50.
NextAccounts ==
  \/ \E e \in AccountIds \cup {NoEditing}, n \in Names, l \in Limits :
       AccountsSubmit(Page, e, n, 50, l)
  \/ \E a \in AccountIds : AccountsDelete(Page, a)
  \/ \E a \in AccountIds, e \in ScenarioEntries :
       PlainSubmit(Page, a, e[1], e[2], Today, NotEditing)
  \/ \E e \in ReminderIds \cup {NoEditing}, a \in AccountIds, t \in TxIds \cup {Null} :
       ReminderSubmit(Page, e, a, t)
  \/ \E e \in ReminderIds \cup {NoEditing}, a \in AccountIds, t \in TxIds \cup {Null} :
       ReminderStore(Page, e, a, t)

SpecAccounts == Init /\ [][NextAccounts]_vars

\* the sessions of user auth freshly loaded, nothing submitted yet
StartSessions(auth) ==
  /\ nextId = 0
  /\ edits = 0
  /\ uid = [c \in Clients |-> auth]
  /\ cache = [c \in Clients |-> [a \in AccountIds |-> NoCache]]
  /\ isOpen = FALSE
  /\ pc = [c \in Clients |-> "idle"]
  /\ pending = [c \in Clients |-> NoPending]
  /\ reminders = [r \in ReminderIds |-> NoReminder]
  /\ toast = "none"
  /\ WizardUnmounted
  /\ InvoiceClosed

\* One user with two accounts and empty ledgers; rows are written, moved
\* between the accounts and deleted through the table alone.
InitLedgers ==
  /\ accounts = [a \in AccountIds |->
                   IF a = 1 THEN NewAccount("u1", "n1", 50, 0)
                   ELSE NewAccount("u1", "n2", 0, 0)]
  /\ transactions = [i \in TxIds |-> NoTx]
  /\ StartSessions("u1")

NextLedgers ==
  \/ \E a \in AccountIds, e \in Entries, d \in FormDates, i \in TxIds \cup {NotEditing} :
       PlainSubmit(Page, a, e[1], e[2], d, i)
  \/ \E i \in TxIds : PageDelete(i)

SpecLedgers == InitLedgers /\ [][NextLedgers]_vars


\* Two users, one account each; every session is u1's. u1 issues the
\* statements of the Transactions, Accounts and Reminders pages with any
\* account, row or reminder id.
InitTenants ==
  /\ accounts = [a \in AccountIds |->
                   IF a = 1 THEN NewAccount("u1", "n1", 50, 0)
                   ELSE NewAccount("u2", "n1", 0, 0)]
  /\ transactions = [i \in TxIds |-> NoTx]
  /\ StartSessions("u1")

NextTenants ==
  \/ \E a \in AccountIds, e \in ScenarioEntries, d \in FormDates,
        i \in TxIds \cup {NotEditing} :
       PlainSubmit(Page, a, e[1], e[2], d, i)
  \/ \E i \in TxIds : PageDelete(i)
  \/ \E e \in AccountIds, n \in Names : AccountsSubmit(Page, e, n, 50, 0)
  \/ \E a \in AccountIds : AccountsDelete(Page, a)
  \/ \E e \in ReminderIds \cup {NoEditing}, a \in AccountIds, t \in TxIds \cup {Null} :
       ReminderSubmit(Page, e, a, t)
  \/ \E e \in ReminderIds \cup {NoEditing}, a \in AccountIds, t \in TxIds \cup {Null} :
       ReminderStore(Page, e, a, t)

SpecTenants == InitTenants /\ [][NextTenants]_vars


\* The two cached components filled in today, with requests that can fail
\* and a sign-out in another tab.
NextSession ==
  \/ QuickOpen
  \/ \E a \in AccountIds \cup {0}, e \in Entries, h \in BOOLEAN :
       QuickSubmit(a, e[1], e[2], h)
  \/ QuickUpdateBalance
  \/ QuickUpdateBalanceFails
  \/ PageMount
  \/ \E a \in AccountIds, e \in Entries, i \in TxIds \cup {NotEditing} :
       PageSubmit(a, e[1], e[2], Today, i)
  \/ PageUpdateBalance
  \/ PageUpdateBalanceFails
  \/ \E i \in TxIds : PageDelete(i)
  \/ \E i \in TxIds : PageDeleteFails(i)
  \/ SignOut

SpecSession == Init /\ [][NextSession]_vars


\* The Reminders page and a client of its table; the plain Transactions form
\* adds the credits of account 1 that the reminders refer to.
NextReminders ==
  \/ \E e \in ReminderIds \cup {NoEditing}, a \in AccountIds, t \in TxIds \cup {Null} :
       ReminderSubmit(Page, e, a, t)
  \/ \E e \in ReminderIds \cup {NoEditing}, a \in AccountIds, t \in TxIds \cup {Null} :
       ReminderStore(Page, e, a, t)
  \/ \E r \in ReminderIds : ReminderSend(Page, r)
  \/ \E r \in ReminderIds : ReminderDelete(Page, r)
  \/ PlainSubmit(Page, 1, "credit", 20, Today, NotEditing)
  \/ \E i \in TxIds : PageDelete(i)

SpecReminders == InitLedgers /\ [][NextReminders]_vars

\* The InvoiceGenerator of a transaction row of 0.01, or one given no
\* transactions.
InitInvoice ==
  /\ StartLedger(50, NoTx)
  /\ WizardUnmounted
  /\ items \in {<<TransactionItem(1)>>, <<EmptyItem>>}
  /\ generating = FALSE
  /\ printing = NoPrinting
  /\ invoices = <<>>

NextInvoice ==
  \/ addItem
  \/ \E i \in 1..MaxItems, d \in Descriptions : updateItem(i, "description", d)
  \/ \E i \in 1..MaxItems, q \in Quantities : updateItem(i, "quantity", q)
  \/ \E i \in 1..MaxItems, r \in Rates : updateItem(i, "rate", r)
  \/ \E i \in 1..MaxItems : removeItem(i)
  \/ generatePDF
  \/ InvoiceSaved

SpecInvoice == InitInvoice /\ [][NextInvoice]_vars

\* A Wizard just rendered with NSteps steps of any kinds of validation; the
\* form starts with data that no validation accepts.
InitWizard ==
  /\ StartLedger(50, NoTx)
  /\ InvoiceClosed
  /\ steps \in [Steps -> Validations]
  /\ mounted = TRUE
  /\ currentStep = 0
  /\ completedSteps = {}
  /\ isLoading = FALSE
  /\ formValid = [s \in Steps |-> steps[s] = "none"]
  /\ calls = [k \in CallIds |-> NoCall]
  /\ completions = 0

NextWizard ==
  \/ \E k \in CallIds, throws \in BOOLEAN : handleNext(k, throws)
  \/ \E k \in CallIds : ValidationReturns(k)
  \/ \E k \in CallIds, closes \in BOOLEAN : OnCompleteReturns(k, closes)
  \/ handlePrevious
  \/ \E i \in Steps : handleStepClick(i)
  \/ \E v \in BOOLEAN : EditStep(v)
  \/ WizardCancel

SpecWizard == InitWizard /\ [][NextWizard]_vars

\* ------------------------------------------------------------ properties
\* no handler is suspended between its two statements
NoCallInFlight == \A c \in Clients : pc[c] = "idle"

\* opening balance plus the signed amounts of the rows stored for account a
LedgerSum(a) ==
  accounts[a].opening_balance + SumSigned(transactions, TxOf(transactions, a))

\* row i is at or before row j in the (transaction_date, insertion) order
AtOrBefore(i, j) ==
  \/ transactions[i].transaction_date < transactions[j].transaction_date
  \/ /\ transactions[i].transaction_date = transactions[j].transaction_date
     /\ i <= j

\* the balance of row i's account right after row i, in that order
PrefixSum(i) ==
  LET a == transactions[i].account_id
  IN accounts[a].opening_balance
       + SumSigned(transactions,
                   {j \in TxOf(transactions, a) : AtOrBefore(j, i)})

ErrorToasts == {"missing", "failed", "not_owner", "unknown_account", "invalid_amount",
                "storage_failure", "duplicate_name", "unknown_transaction",
                "unknown_column", "type_error"}

\* C1: once the mutating calls have returned, every account's
\* current_balance is its opening balance plus the signed sum of its rows.
C1_CurrentBalanceIsLedgerSum ==
  NoCallInFlight =>
    \A a \in AccountIds :
      accounts[a].exists => accounts[a].current_balance = LedgerSum(a)

\* C2: once the mutating calls have returned, every stored row's
\* running_balance is the opening balance plus the signed sum of the rows of
\* its account at or before it in (transaction_date, insertion) order.
C2_RunningBalanceIsPrefixSum ==
  NoCallInFlight =>
    \A i \in TxIds :
      transactions[i].exists => transactions[i].running_balance = PrefixSum(i)

\* C3: opening balance 0, rows (d1, credit 100) and (d3, debit 30) inserted in
\* that order, then (d2, credit 20) with d1 < d2 < d3, nothing edited or
\* deleted: the running balances are 100, 120, 90 in date order and the
\* current balance is 90.
C3_BackdatedInsertExample ==
  LET r0 == transactions[0]
      r1 == transactions[1]
      r2 == transactions[2]
  IN ( /\ edits = 0 /\ nextId = 2
       /\ accounts[1].exists /\ accounts[1].opening_balance = 0
       /\ r0.exists /\ r1.exists /\ r2.exists
       /\ r0.type = "credit" /\ r0.amount = 100
       /\ r1.type = "debit" /\ r1.amount = 30
       /\ r2.type = "credit" /\ r2.amount = 20
       /\ r0.transaction_date < r2.transaction_date
       /\ r2.transaction_date < r1.transaction_date )
     => ( /\ r0.running_balance = 100
          /\ r2.running_balance = 120
          /\ r1.running_balance = 90
          /\ accounts[1].current_balance = 90 )

\* the ledger of account a is what a recalculation from its rows gives
LedgerConsistent(a) ==
  /\ accounts[a].current_balance = LedgerSum(a)
  /\ \A i \in TxOf(transactions, a) : transactions[i].running_balance = PrefixSum(i)

\* C4: deleting a row of a consistent ledger leaves the ledger consistent:
\* the remaining running balances and the current balance are those of a
\* ledger that never held the row.
C4_DeleteRecalculates ==
  [][ \A k \in TxIds, a \in AccountIds :
        ( /\ transactions[k].exists /\ transactions[k].account_id = a
          /\ accounts[a].exists
          /\ LedgerConsistent(a)
          /\ transactions' = [transactions EXCEPT ![k] = NoTx]
          /\ accounts'[a].exists )
        => LedgerConsistent(a)' ]_vars

\* the chronologically last row of account a
LastTx(a) ==
  CHOOSE i \in TxOf(transactions, a) :
    \A j \in TxOf(transactions, a) : AtOrBefore(j, i)

\* C5: once the mutating calls have returned, current_balance is the
\* running_balance of the account's chronologically last row, or the opening
\* balance when it has no rows.
C5_CurrentBalanceIsLastRunningBalance ==
  NoCallInFlight =>
    \A a \in AccountIds :
      accounts[a].exists =>
        accounts[a].current_balance =
          IF TxOf(transactions, a) = {} THEN accounts[a].opening_balance
          ELSE transactions[LastTx(a)].running_balance

\* C6: of two rows of one account with the same date and nothing between
\* them, the later inserted one carries the earlier one's running balance
\* plus its own signed amount.
C6_SameDateTieBreak ==
  \A x, y \in TxIds :
    ( /\ x < y
      /\ transactions[x].exists /\ transactions[y].exists
      /\ transactions[x].account_id = transactions[y].account_id
      /\ transactions[x].transaction_date = transactions[y].transaction_date
      /\ \A z \in TxIds :
           (x < z /\ z < y /\ transactions[z].exists
            /\ transactions[z].account_id = transactions[x].account_id)
           => transactions[z].transaction_date # transactions[x].transaction_date )
    => transactions[y].running_balance
         = transactions[x].running_balance
             + Signed(transactions[y].type, transactions[y].amount)

\* C7: when the sessions' inserts have all returned, the balance is the
\* balance before them plus the signed amounts of all the rows they added.
C7_NoLostUpdate ==
  NoCallInFlight =>
    \A a \in AccountIds :
      accounts[a].exists =>
        accounts[a].current_balance
          = accounts[a].opening_balance
              + SumSigned(transactions,
                          {i \in 1..nextId : transactions[i].exists
                                             /\ transactions[i].account_id = a})

\* C8: two handlers are never both between their insert and their balance
\* write on the same account.
C8_MutationsSerialized ==
  ~( /\ pc[Quick] = "update" /\ pc[Page] = "update"
     /\ pending[Quick].account_id = pending[Page].account_id )

\* the amounts the table refuses, and what a form can be editing
Rejectable == {e \in Entries : e[2] <= 0}
Editable == {i \in TxIds : i <= nextId /\ transactions[i].exists} \cup {NotEditing}

\* C9: a submit whose amount is zero or negative (QuickEntry, the wizard, the
\* plain form; an insert, or an update of a stored row) changes neither table
\* and shows an error.
C9_InvalidAmountRejected ==
  [][ (UNCHANGED db /\ toast' \in ErrorToasts)
      \/ /\ \A a \in AccountIds, e \in Rejectable : ~QuickSubmit(a, e[1], e[2], TRUE)
         /\ \A i \in Editable, a \in AccountIds, e \in Rejectable :
              /\ ~PageSubmit(a, e[1], e[2], Today, i)
              /\ ~PlainSubmit(Page, a, e[1], e[2], Today, i) ]_vars

\* C9 happens: rows are stored and a write was refused for its amount
C9_Witness ==
  /\ toast = "invalid_amount"
  /\ \E i \in TxIds : transactions[i].exists

\* C10: every stored row's account exists, and adding a row for an account
\* that does not exist changes neither table and shows an error.
C10_UnknownAccountRejected ==
  /\ [](\A i \in TxIds :
          transactions[i].exists => AccountExists(accounts, transactions[i].account_id))
  /\ [][ (UNCHANGED db /\ toast' \in ErrorToasts)
         \/ \A a \in {x \in AccountIds : ~accounts[x].exists}, e \in Entries :
              /\ ~QuickSubmit(a, e[1], e[2], TRUE)
              /\ ~PageSubmit(a, e[1], e[2], Today, NotEditing)
              /\ ~PlainSubmit(Page, a, e[1], e[2], Today, NotEditing) ]_vars

\* C10 happens: rows are stored and an insert was refused for its account
C10_Witness ==
  /\ toast = "unknown_account"
  /\ \E i \in TxIds : transactions[i].exists

\* C11: an update of a stored row in a consistent database leaves every
\* account's ledger consistent: the row's running balance, those of the rows
\* after it, and the current balance of the account it left and of the
\* account it is in now.
C11_UpdateRecalculates ==
  [][ \A k \in TxIds :
        ( /\ transactions[k].exists /\ transactions'[k].exists
          /\ transactions'[k] # transactions[k]
          /\ \A j \in TxIds \ {k} : transactions'[j] = transactions[j]
          /\ \A a \in AccountIds : accounts[a].exists => LedgerConsistent(a) )
        => \A a \in AccountIds : accounts'[a].exists => LedgerConsistent(a)' ]_vars

\* C12: when the only mutation started so far fails at its account update,
\* both tables are as they were before it started: no row is stored and the
\* current balance is the opening balance.
C12_FailedMutationRolledBack ==
  [][ \A c \in Clients :
        ( /\ nextId = 1
          /\ pc[c] = "update" /\ pc'[c] = "idle"
          /\ toast' \in ErrorToasts )
        => /\ \A i \in TxIds : ~transactions'[i].exists
           /\ \A a \in AccountIds :
                accounts'[a].exists
                  => accounts'[a].current_balance = accounts'[a].opening_balance ]_vars

\* C13: a step that changes neither the stored rows nor an account's opening
\* balance leaves that account's current balance alone.
C13_CurrentBalanceOnlyRecalculated ==
  [][ \A a \in AccountIds :
        ( /\ accounts[a].exists /\ accounts'[a].exists
          /\ transactions' = transactions
          /\ accounts'[a].opening_balance = accounts[a].opening_balance )
        => accounts'[a].current_balance = accounts[a].current_balance ]_vars

\* an update of row k that changes no field: both triggers fire again
Rerun(accts, txs, k) == UpdateTransaction(accts, txs, k, txs[k].user_id, txs[k])

\* C14: in every state and for every stored row, running the recalculation
\* for the row twice in a row leaves the row's running balance and its
\* account's current balance as the first run left them.
C14_RecalculationIdempotent ==
  \A k \in TxIds :
    (transactions[k].exists /\ AccountExists(accounts, transactions[k].account_id))
    => LET a == transactions[k].account_id
           once == Rerun(accounts, transactions, k)
           twice == Rerun(once.accounts, once.transactions, k)
       IN /\ once.ok /\ twice.ok
          /\ twice.transactions[k].running_balance
               = once.transactions[k].running_balance
          /\ twice.accounts[a].current_balance = once.accounts[a].current_balance

\* C14 happens: a row was updated before, and the first run is not a no-op:
\* it changes the stored current balance
C14_Witness ==
  /\ edits > 0
  /\ \E k \in TxIds :
       /\ transactions[k].exists
       /\ AccountExists(accounts, transactions[k].account_id)
       /\ Rerun(accounts, transactions, k).accounts # accounts

\* account b and its rows are what they were before the step
Untouched(b) ==
  /\ accounts'[b] = accounts[b]
  /\ \A j \in TxIds :
       (transactions[j].exists /\ transactions[j].account_id = b)
       => transactions'[j] = transactions[j]

\* two rows added to two accounts, in either order, give the same tables
InsertsCommute(rowA, rowB) ==
  LET x == nextId + 1
      y == nextId + 2
      a1 == InsertTransaction(accounts, transactions, x, "u1", rowA)
      ab == InsertTransaction(a1.accounts, a1.transactions, y, "u1", rowB)
      b1 == InsertTransaction(accounts, transactions, y, "u1", rowB)
      ba == InsertTransaction(b1.accounts, b1.transactions, x, "u1", rowA)
  IN ab.accounts = ba.accounts /\ ab.transactions = ba.transactions

\* deleting two rows of two accounts, in either order, gives the same tables
DeletesCommute(i, j) ==
  LET i1 == DeleteTransaction(accounts, transactions, i, "u1")
      ij == DeleteTransaction(i1.accounts, i1.transactions, j, "u1")
      j1 == DeleteTransaction(accounts, transactions, j, "u1")
      ji == DeleteTransaction(j1.accounts, j1.transactions, i, "u1")
  IN ij.accounts = ji.accounts /\ ij.transactions = ji.transactions

\* C15: an insert, update or delete of a row that names account a only leaves
\* every other account and its rows as they were, and two such mutations on
\* different accounts give the same tables in either order.
C15_NoCrossAccountState ==
  /\ [][ \A b \in AccountIds :
           \/ Untouched(b)
           \/ \A a \in AccountIds \ {b}, i \in TxIds \cup {NotEditing} :
                LET kept == i # NotEditing
                              => (transactions[i].exists
                                    => transactions[i].account_id = a)
                IN /\ \A e \in Entries, d \in FormDates :
                        ~(kept /\ PlainSubmit(Page, a, e[1], e[2], d, i))
                   /\ ~( /\ i # NotEditing
                         /\ transactions[i].exists /\ transactions[i].account_id = a
                         /\ PageDelete(i) ) ]_vars
  /\ [](\A e1, e2 \in ScenarioEntries, d1, d2 \in FormDates :
          nextId + 2 <= MaxTx
          => InsertsCommute(TxRow(1, e1[1], e1[2], d1, 0, "u1"),
                            TxRow(2, e2[1], e2[2], d2, 0, "u1")))
  /\ [](\A i, j \in TxIds :
          ( /\ transactions[i].exists /\ transactions[j].exists
            /\ transactions[i].account_id # transactions[j].account_id )
          => DeletesCommute(i, j))

\* C15 happens: both accounts hold rows, so a row of one account was written
\* while the other had a ledger to disturb
C15_Witness ==
  /\ toast = "success"
  /\ \E i, j \in TxIds :
       /\ transactions[i].exists /\ transactions[i].account_id = 1
       /\ transactions[j].exists /\ transactions[j].account_id = 2

\* C16: a step that deletes account a leaves no transaction and no reminder
\* that refers to a, and removes no transaction and no reminder of any
\* other account.
C16_AccountDeleteCascades ==
  [][ \A a \in AccountIds :
        (accounts[a].exists /\ ~accounts'[a].exists)
        => /\ \A i \in TxIds :
                /\ ~(transactions'[i].exists /\ transactions'[i].account_id = a)
                /\ (transactions[i].exists /\ transactions[i].account_id # a)
                     => transactions'[i] = transactions[i]
           /\ \A r \in ReminderIds :
                /\ ~(reminders'[r].exists /\ reminders'[r].account_id = a)
                /\ (reminders[r].exists /\ reminders[r].account_id # a)
                     => reminders'[r] = reminders[r] ]_vars

\* C17: no step taken by a session of user U creates, changes or removes an
\* account, a transaction or a reminder whose user_id is not U.
C17_ConfinedToOwnRows ==
  [][ \A c \in Clients :
        /\ \A a \in AccountIds :
             (accounts[a] # accounts'[a])
             => /\ accounts[a].exists => accounts[a].user_id = uid[c]
                /\ accounts'[a].exists => accounts'[a].user_id = uid[c]
        /\ \A i \in TxIds :
             (transactions[i] # transactions'[i])
             => /\ transactions[i].exists => transactions[i].user_id = uid[c]
                /\ transactions'[i].exists => transactions'[i].user_id = uid[c]
        /\ \A r \in ReminderIds :
             (reminders[r] # reminders'[r])
             => /\ reminders[r].exists => reminders[r].user_id = uid[c]
                /\ reminders'[r].exists => reminders'[r].user_id = uid[c] ]_vars

\* the account the form holds (NoEditing for a new one) would get the name
\* of another stored account of the session's user
TakenName(c, editing, name) ==
  /\ uid[c] # ""
  /\ editing # NoEditing => accounts[editing].exists /\ accounts[editing].user_id = uid[c]
  /\ \E b \in AccountIds \ {editing} :
       accounts[b].exists /\ accounts[b].name = name /\ accounts[b].user_id = uid[c]

\* C18: creating or renaming an account under the name of another account
\* of the same owner raises an error and leaves accounts as it was, and in
\* every state no two accounts of one owner carry the same name.
C18_DuplicateNameRejected ==
  /\ [](\A a, b \in AccountIds :
          (a # b /\ accounts[a].exists /\ accounts[b].exists
           /\ accounts[a].user_id = accounts[b].user_id)
          => accounts[a].name # accounts[b].name)
  /\ [][ \A e \in AccountIds \cup {NoEditing}, n \in Names, l \in Limits :
          \/ ~TakenName(Page, e, n)
          \/ ~AccountsSubmit(Page, e, n, 50, l)
          \/ (accounts' = accounts /\ toast' = "duplicate_name") ]_vars

\* a rename to the other account's name has just been refused
C18_Witness ==
  /\ toast = "duplicate_name"
  /\ \A a \in AccountIds : accounts[a].exists
  /\ accounts[1].user_id = accounts[2].user_id

\* C19: creating or editing an account with a negative credit_limit raises
\* an error and stores nothing, and in every state every account's
\* credit_limit is at least 0.
C19_NegativeCreditLimitRejected ==
  /\ [](\A a \in AccountIds : accounts[a].exists => accounts[a].credit_limit >= 0)
  /\ [][ \A e \in AccountIds \cup {NoEditing}, n \in Names, l \in Limits :
          \/ ~(l < 0 /\ uid[Page] # "")
          \/ ~AccountsSubmit(Page, e, n, 50, l)
          \/ (accounts' = accounts /\ toast' \in ErrorToasts) ]_vars

\* row i comes before row j by (transaction_date, insertion order); ids are
\* issued in insertion order
DateThenInsertion(i, j) ==
  \/ transactions[i].transaction_date < transactions[j].transaction_date
  \/ /\ transactions[i].transaction_date = transactions[j].transaction_date
     /\ i < j

\* the listings of account a the session of the page can be given
Listings(a) ==
  {filteredTransactions(s, transactions, a) :
     s \in fetchTransactions(transactions, uid[Page])}

\* C20: for the stored rows every listing of an account is the same
\* sequence, ordered by (transaction_date, insertion order) from the newest
\* or from the oldest row, rows of one transaction_date included.
C20_ListingTotallyOrdered ==
  \A a \in AccountIds :
    /\ \A l, m \in Listings(a) : l = m
    /\ \A l \in Listings(a) :
         \/ \A p, q \in 1..Len(l) : p < q => DateThenInsertion(l[p], l[q])
         \/ \A p, q \in 1..Len(l) : p < q => DateThenInsertion(l[q], l[p])

\* a submit of client c with this form cannot do its work: no signed-in
\* user, or the statement raises an error
SubmitFails(c, account_id, type, amount, date, editing) ==
  LET row == TxRow(account_id, type, amount, date, 0, uid[c])
  IN \/ uid[c] = ""
     \/ editing = NotEditing /\ RowError(accounts, uid[c], row) # ""
     \/ /\ editing # NotEditing
        /\ transactions[editing].exists /\ transactions[editing].user_id = uid[c]
        /\ RowError(accounts, uid[c], row) # ""

\* client c's handler has returned and an error toast is shown
Surfaced(c) == toast \in ErrorToasts /\ pc[c] = "idle" /\ pending[c] = NoPending

\* C21: in no state can a submit that cannot do its work, a failing delete
\* or a failing account-balance write end otherwise than returned with an
\* error toast (no success toast, no silent return, no further attempt).
C21_FailuresSurfaced ==
  /\ \A a \in AccountIds, e \in Entries, i \in TxIds \cup {NotEditing} :
       SubmitFails(Page, a, e[1], e[2], Today, i)
       => ~ENABLED (PageSubmit(a, e[1], e[2], Today, i) /\ ~Surfaced(Page)')
  /\ \A a \in AccountIds \cup {0}, e \in Entries, h \in BOOLEAN :
       (a = 0 \/ ~h \/ SubmitFails(Quick, a, e[1], e[2], Today, NotEditing))
       => ~ENABLED (QuickSubmit(a, e[1], e[2], h) /\ ~Surfaced(Quick)')
  /\ ~ENABLED (QuickUpdateBalanceFails /\ ~Surfaced(Quick)')
  /\ ~ENABLED (PageUpdateBalanceFails /\ ~Surfaced(Page)')
  /\ \A i \in TxIds : ~ENABLED (PageDeleteFails(i) /\ ~Surfaced(Page)')

\* the running balance of row k of table txs by the trigger's rule: opening
\* balance, the account's rows dated strictly before it, its own amount
StrictlyEarlierSum(accts, txs, k) ==
  accts[txs[k].account_id].opening_balance
    + SumSigned(txs, {j \in TxOf(txs, txs[k].account_id) \ {k} :
                       txs[j].transaction_date < txs[k].transaction_date})
    + Signed(txs[k].type, txs[k].amount)

\* C22: a step that stores a new or changed transaction row stores it with
\* the running_balance of the trigger's rule, whatever running_balance the
\* client computed from its cached current_balance.
C22_RunningBalanceFromTrigger ==
  [][ \A k \in TxIds :
        (transactions'[k].exists /\ transactions'[k] # transactions[k])
        => transactions'[k].running_balance
             = StrictlyEarlierSum(accounts', transactions', k) ]_vars

\* a row has just been stored with another running_balance than the one its
\* client sent and is about to write to the account
C22_Witness ==
  \E c \in Clients :
    /\ pc[c] = "update"
    /\ transactions[nextId].exists
    /\ transactions[nextId].account_id = pending[c].account_id
    /\ transactions[nextId].running_balance # pending[c].runningBalance

\* C23: every stored transaction carries the user_id of its account, and
\* no step of a session changes the current_balance of an account of
\* another user.
C23_RowOwnerIsAccountOwner ==
  /\ [](\A i \in TxIds :
          transactions[i].exists
          => /\ accounts[transactions[i].account_id].exists
             /\ accounts[transactions[i].account_id].user_id = transactions[i].user_id)
  /\ [][ \A a \in AccountIds :
          (accounts[a].exists /\ accounts'[a].exists
           /\ \A c \in Clients : accounts[a].user_id # uid[c])
          => accounts'[a].current_balance = accounts[a].current_balance ]_vars

\* ------------------------------------------------------ Wizard claims
\* the invocation k of handleNext gets past its validation in this step
PassesValidation(k) ==
  \/ \E throws \in BOOLEAN :
        /\ handleNext(k, throws)
        /\ \/ steps[currentStep] = "none"
           \/ steps[currentStep] = "sync" /\ ~throws /\ formValid[currentStep]
  \/ ValidationReturns(k) /\ calls[k].result = "true"

\* C24: onComplete is invoked only by handleNext, only while currentStep is
\* the last step and only once that step's validation (if any) has returned
\* true; a handleNext that gets past the validation of an earlier step does
\* not invoke onComplete and moves currentStep forward by exactly one.
C24_OnCompleteOnlyFromLastStep ==
  [][ /\ completions' # completions =>
           /\ currentStep = LastStep
           /\ \E k \in CallIds : PassesValidation(k)
      /\ \A k \in CallIds :
           PassesValidation(k) /\ mounted /\ currentStep < LastStep =>
             /\ completions' = completions
             /\ currentStep' = currentStep + 1 ]_vars

\* C25: whenever onComplete is invoked, the validation of every step holds
\* for the form data of that moment; going back, spoiling a step's data and
\* navigating forward again does not reach completion.
C25_CompletesOnlyValidData ==
  [][ completions' # completions => \A s \in Steps : formValid[s] ]_vars

\* C26: while one invocation of onComplete is pending, the Next/Complete
\* button cannot start a second one, whether or not the last step has a
\* validation.
C26_OneCompletionAtATime ==
  Cardinality({k \in CallIds : calls[k].pc = "completing"}) <= 1

\* the invocation k of handleNext sees its validation return false or throw
\* in this step
FailsValidation(k) ==
  \/ \E throws \in BOOLEAN :
        /\ handleNext(k, throws)
        /\ steps[currentStep] = "sync" /\ (throws \/ ~formValid[currentStep])
  \/ ValidationReturns(k) /\ calls[k].result # "true"

\* C27: when the validation of the step returns false or throws, handleNext
\* leaves currentStep and completedSteps as they were, does not invoke
\* onComplete, and isLoading is false afterwards (in a Wizard still rendered).
C27_FailedValidationChangesNothing ==
  [][ \A k \in CallIds :
        FailsValidation(k) /\ mounted =>
          /\ currentStep' = currentStep
          /\ completedSteps' = completedSteps
          /\ completions' = completions
          /\ isLoading' = FALSE
          /\ calls'[k].pc = "idle" ]_vars

\* a rendered Wizard waits for a validation that will return false or throw,
\* on a step not yet completed
C27_Witness ==
  /\ mounted /\ isLoading
  /\ \E k \in CallIds :
        /\ calls[k].pc = "validating" /\ calls[k].result \in {"false", "throws"}
        /\ calls[k].step = currentStep
        /\ currentStep \notin completedSteps

\* C28: currentStep stays within 0..n-1; handlePrevious at step 0 and
\* handleNext at step n-1 do not move it; handleStepClick moves only to a
\* step before the current one or in completedSteps; and every step before
\* the current one has been completed by handleNext, so no step is reached
\* that was not visited in order.
C28_CurrentStepInRange ==
  /\ [](/\ currentStep \in Steps
        /\ completedSteps \subseteq Steps
        /\ \A s \in Steps : 0 < s /\ (s = currentStep \/ s \in completedSteps)
                               => s - 1 \in completedSteps)
  /\ [][ /\ handlePrevious /\ currentStep = 0 => currentStep' = 0
         /\ \A k \in CallIds :
              /\ (\E throws \in BOOLEAN : handleNext(k, throws))
                   /\ currentStep = LastStep => currentStep' = LastStep
              /\ ValidationReturns(k) /\ calls[k].step = LastStep
                   => currentStep' = currentStep
         /\ \A i \in Steps :
              handleStepClick(i) /\ currentStep' # currentStep =>
                /\ currentStep' = i
                /\ i < currentStep \/ i \in completedSteps ]_vars

\* every step was completed and the user has navigated back to the first
C28_Witness ==
  mounted /\ currentStep = 0 /\ completedSteps = Steps /\ NSteps > 1

\* ---------------------------------------------------- payment reminders
\* C29: in every stored reminder is_sent is true exactly when sent_at is
\* set; a reminder is stored unsent with no sent_at; a write that keeps the
\* reminder (an edit) changes neither column unless it is the send, which
\* sets both; a sent reminder never reverts to unsent.
C29_SentFlagMatchesSentAt ==
  /\ [](\A r \in ReminderIds :
          reminders[r].exists => (reminders[r].is_sent <=> reminders[r].sent_at # Null))
  /\ [][ \A r \in ReminderIds :
           /\ ~reminders[r].exists /\ reminders'[r].exists
                => ~reminders'[r].is_sent /\ reminders'[r].sent_at = Null
           /\ reminders[r].exists /\ reminders'[r].exists
                => \/ /\ reminders'[r].is_sent = reminders[r].is_sent
                      /\ reminders'[r].sent_at = reminders[r].sent_at
                   \/ /\ ReminderSend(Page, r)
                      /\ reminders'[r].is_sent /\ reminders'[r].sent_at # Null ]_vars

\* a reminder of account 2 on a row of account 1 has been sent
C29_Witness ==
  \E r \in ReminderIds :
    /\ reminders[r].exists /\ reminders[r].is_sent /\ reminders[r].sent_at = Today
    /\ reminders[r].account_id = 2 /\ reminders[r].transaction_id # Null
    /\ transactions[reminders[r].transaction_id].account_id = 1

\* ------------------------------------------------------- invoice claims
\* the sum of the amounts of a list of items, in thousandths
SumOfAmounts(list) == calculateTotal(list)

\* C30: after any addItem, removeItem and updateItem of description,
\* quantity and rate, every item's amount is its quantity times its rate,
\* and the total_amount of a stored invoice is the sum of the amounts of the
\* items stored with it.
C30_TotalIsSumOfAmounts ==
  /\ \A i \in 1..Len(items) : items[i].amount = items[i].quantity * items[i].rate
  /\ \A n \in 1..Len(invoices) :
       /\ \A i \in 1..Len(invoices[n].items) :
            invoices[n].items[i].amount
              = invoices[n].items[i].quantity * invoices[n].items[i].rate
       /\ invoices[n].total_amount * 10 = SumOfAmounts(invoices[n].items)

====
